---- MODULE Spec2Model ----
(***************************************************************************)
(* Model of faust/utils/text.py: the fuzzy matching entry points           *)
(* (fuzzymatch_iter, fuzzymatch, fuzzymatch_best, fuzzymatch_choices,      *)
(* didyoumean) and title().                                                *)
(*                                                                         *)
(* A str is a sequence of character codes (ASCII), so that Python's        *)
(* code-point ordering of strings, str.capitalize and str.split can be     *)
(* computed.  A float ratio 2.0*M/T is the pair <<2*M, T>> of integers     *)
(* compared by cross multiplication; for the small integers involved the   *)
(* correctly rounded float quotients compare exactly as the fractions do.  *)
(***************************************************************************)
EXTENDS Integers, Sequences, FiniteSets, TLC

VARIABLES op, haystack, needle, min_ratio, fmt, pc, pos, scored, out, result, error, s

vars == <<op, haystack, needle, min_ratio, fmt, pc, pos, scored, out, result, error, s>>

(***************************************************************************)
(* Bounds of the model.                                                    *)
(***************************************************************************)
MaxLen == 1
MaxHaystack == 2
MaxPairLen == 4
MaxTitleLen == 3

(***************************************************************************)
(* Character codes.                                                        *)
(***************************************************************************)
SPACE == 32
COMMA == 44
HYPHEN == 45
UNDERSCORE == 95
ALT == 0

Chars == {97, 98}
TitleChars == {SPACE, HYPHEN, UNDERSCORE, 97, 66}

RECURSIVE StrsUpTo(_, _)
StrsUpTo(cs, n) ==
    IF n = 0 THEN {<< >>}
    ELSE LET shorter == StrsUpTo(cs, n - 1)
         IN  shorter \cup {Append(w, c) : w \in {x \in shorter : Len(x) = n - 1}, c \in cs}

RECURSIVE ListsUpTo(_, _)
ListsUpTo(ws, n) ==
    IF n = 0 THEN {<< >>}
    ELSE LET shorter == ListsUpTo(ws, n - 1)
         IN  shorter \cup {Append(h, w) : h \in {x \in shorter : Len(x) = n - 1}, w \in ws}

Rep(c, n) == [i \in 1..n |-> c]

(***************************************************************************)
(* difflib.SequenceMatcher(None, a, b).ratio(), as called at text.py:81    *)
(* with isjunk = None and the default autojunk = True.                     *)
(* Indices lo/hi are Python's: 0-based, half open; a[i] is At(a, i).       *)
(***************************************************************************)
AutojunkMinLen == 200

At(w, i) == w[i + 1]

\* Popular with the length test of autojunk left out.
Popular_any_length(b) ==
    {c \in {b[j] : j \in 1..Len(b)} :
        Cardinality({j \in 1..Len(b) : b[j] = c}) > (Len(b) \div 100) + 1}

\* The "popular" elements autojunk drops from b2j: only for len(b) >= 200,
\* those occurring more than len(b) // 100 + 1 times.
Popular(b) ==
    IF Len(b) >= AutojunkMinLen
    THEN {c \in {b[j] : j \in 1..Len(b)} :
             Cardinality({j \in 1..Len(b) : b[j] = c}) > (Len(b) \div 100) + 1}
    ELSE {}

SetMax(S) == CHOOSE x \in S : \A y \in S : y <= x
SetMin(S) == CHOOSE x \in S : \A y \in S : x <= y
Min2(x, y) == IF x <= y THEN x ELSE y

\* newj2len[j] in row i of find_longest_match: the length of the run of
\* equal, indexed (non popular) elements ending at a[i], b[j]
\* (j2len.get(j - 1, 0) + 1, unfolded over the rows above).
RunLen(a, b, pop, i, j, alo, blo) ==
    Cardinality({n \in 1..(Min2(i - alo, j - blo) + 1) :
                    \A t \in 0..(n - 1) :
                        At(a, i - t) = At(b, j - t) /\ At(b, j - t) \notin pop})


\* The main loop of find_longest_match: rows i ascending, columns j
\* ascending, the best block replaced only by a strictly longer one.
\* Result <<besti, bestj, bestsize>>.
LongestSeed(a, b, pop, alo, ahi, blo, bhi) ==
    LET ends == {e \in (alo..(ahi - 1)) \X (blo..(bhi - 1)) :
                    At(a, e[1]) = At(b, e[2]) /\ At(b, e[2]) \notin pop}
    IN  IF ends = {} THEN <<alo, blo, 0>>
        ELSE LET len    == [e \in ends |-> RunLen(a, b, pop, e[1], e[2], alo, blo)]
                 k      == SetMax({len[e] : e \in ends})
                 longest == {e \in ends : len[e] = k}
                 i      == SetMin({e[1] : e \in longest})
                 j      == SetMin({e[2] : e \in {x \in longest : x[1] = i}})
             IN  <<i - k + 1, j - k + 1, k>>

\* The first pair of "while" loops of find_longest_match: extend the block
\* with equal elements on both sides (bjunk is empty because isjunk is None,
\* so the loops guarded by isbjunk never run).
ExtendLeft(a, b, m, alo, blo) ==
    LET n == Cardinality({x \in 1..Min2(m[1] - alo, m[2] - blo) :
                             \A t \in 1..x : At(a, m[1] - t) = At(b, m[2] - t)})
    IN  <<m[1] - n, m[2] - n, m[3] + n>>

\* ExtendRight without the loop that extends the block to the right.
ExtendRight_skipped(a, b, m, ahi, bhi) == m

ExtendRight(a, b, m, ahi, bhi) ==
    LET n == Cardinality({x \in 1..Min2(ahi - (m[1] + m[3]), bhi - (m[2] + m[3])) :
                             \A t \in 0..(x - 1) :
                                 At(a, m[1] + m[3] + t) = At(b, m[2] + m[3] + t)})
    IN  <<m[1], m[2], m[3] + n>>

find_longest_match(a, b, pop, alo, ahi, blo, bhi) ==
    ExtendRight(a, b,
                ExtendLeft(a, b, LongestSeed(a, b, pop, alo, ahi, blo, bhi), alo, blo),
                ahi, bhi)

\* get_matching_blocks, summed: the total size of the matching blocks.
RECURSIVE MatchedLen(_, _, _, _, _, _, _)
MatchedLen(a, b, pop, alo, ahi, blo, bhi) ==
    LET m == find_longest_match(a, b, pop, alo, ahi, blo, bhi)
        i == m[1]
        j == m[2]
        k == m[3]
    IN  IF k = 0 THEN 0
        ELSE k
             + (IF alo < i /\ blo < j THEN MatchedLen(a, b, pop, alo, i, blo, j) ELSE 0)
             + (IF i + k < ahi /\ j + k < bhi
                THEN MatchedLen(a, b, pop, i + k, ahi, j + k, bhi) ELSE 0)

Matches(a, b) == MatchedLen(a, b, Popular(b), 0, Len(a), 0, Len(b))

\* Ratio without the 1.0 of two empty strings.
Ratio_empty_is_zero(a, b) ==
    LET length == Len(a) + Len(b)
    IN  IF length = 0 THEN <<0, 1>> ELSE <<2 * Matches(a, b), length>>

\* _calculate_ratio: 2.0 * matches / length, and 1.0 when length is 0.
Ratio(a, b) ==
    LET length == Len(a) + Len(b)
    IN  IF length = 0 THEN <<1, 1>> ELSE <<2 * Matches(a, b), length>>

\* Float comparisons on fractions with positive denominators.
Geq(x, y) == x[1] * y[2] >= y[1] * x[2]
Gt(x, y) == x[1] * y[2] > y[1] * x[2]
Eq(x, y) == x[1] * y[2] = y[1] * x[2]


(***************************************************************************)
(* class FuzzyMatch(NamedTuple) and the ordering of tuples and of str.     *)
(***************************************************************************)
FuzzyMatch(r, v) == [ratio |-> r, value |-> v]

\* str.__lt__: lexicographic by code point, a proper prefix is smaller.
StrLt(x, y) ==
    \E k \in 0..Min2(Len(x), Len(y)) :
        /\ \A t \in 1..k : x[t] = y[t]
        /\ \/ k = Len(x) /\ k < Len(y)
           \/ k < Len(x) /\ k < Len(y) /\ x[k + 1] < y[k + 1]

\* TupleLt with the order of the values inverted.
TupleLt_value_inverted(m, n) ==
    \/ Gt(n.ratio, m.ratio)
    \/ Eq(m.ratio, n.ratio) /\ StrLt(n.value, m.value)

\* tuple.__lt__ on (ratio, value): ratio first, then value.
TupleLt(m, n) ==
    \/ Gt(n.ratio, m.ratio)
    \/ Eq(m.ratio, n.ratio) /\ StrLt(m.value, n.value)

\* sorted(..., reverse=True): stable, equal elements keep their order.
RECURSIVE InsertReverse(_, _)
InsertReverse(sorted, m) ==
    IF sorted = << >> THEN <<m>>
    ELSE IF TupleLt(Head(sorted), m) THEN <<m>> \o sorted
    ELSE <<Head(sorted)>> \o InsertReverse(Tail(sorted), m)

RECURSIVE SortedReverse(_)
SortedReverse(ms) ==
    IF ms = << >> THEN << >>
    ELSE InsertReverse(SortedReverse(SubSeq(ms, 1, Len(ms) - 1)), ms[Len(ms)])

(***************************************************************************)
(* str.join and str.format with the keyword alt.  A template is a str in   *)
(* which the code ALT stands for the replacement field "{alt}".            *)
(***************************************************************************)
RECURSIVE Join(_, _)
Join(sep, ws) ==
    IF ws = << >> THEN << >>
    ELSE IF Len(ws) = 1 THEN ws[1]
    ELSE ws[1] \o sep \o Join(sep, Tail(ws))

RECURSIVE Format(_, _)
Format(template, alt) ==
    IF template = << >> THEN << >>
    ELSE (IF Head(template) = ALT THEN alt ELSE <<Head(template)>>)
         \o Format(Tail(template), alt)

\* 'one of {alt}', '{alt}', ''
ChoicesDefaults ==
    [fmt_many |-> <<111, 110, 101, 32, 111, 102, 32, ALT>>,
     fmt_one  |-> <<ALT>>,
     fmt_none |-> << >>]

\* 'Did you mean one of {alt}?', 'Did you mean {alt}?', ''
DidyoumeanDefaults ==
    [fmt_many |-> <<68, 105, 100, 32, 121, 111, 117, 32, 109, 101, 97, 110, 32,
                    111, 110, 101, 32, 111, 102, 32, ALT, 63>>,
     fmt_one  |-> <<68, 105, 100, 32, 121, 111, 117, 32, 109, 101, 97, 110, 32, ALT, 63>>,
     fmt_none |-> << >>]

\* '{alt}|{alt}', '= {alt}', 'no match': a caller's own templates.
CallerFormats ==
    [fmt_many |-> <<ALT, 124, ALT>>,
     fmt_one  |-> <<61, 32, ALT>>,
     fmt_none |-> <<110, 111, 32, 109, 97, 116, 99, 104>>]

Formats == {ChoicesDefaults, DidyoumeanDefaults, CallerFormats}

(***************************************************************************)
(* Inputs.  The haystack is a list of str, min_ratio a fraction <<p, q>>.  *)
(***************************************************************************)
Words == StrsUpTo(Chars, MaxLen)
Haystacks == ListsUpTo(Words, MaxHaystack)
MinRatios == {<<0 - 1, 2>>, <<0, 1>>, <<3, 5>>, <<1, 1>>, <<3, 2>>}

PairWords == StrsUpTo(Chars, MaxPairLen)

\* Strings long enough for autojunk, and short ones to compare them with.
LongWords ==
    {Rep(97, AutojunkMinLen),
     <<98>> \o Rep(97, AutojunkMinLen),
     Rep(97, AutojunkMinLen - 1) \o <<98>>,
     <<97>>,
     <<98, 97>>}

\* SequenceMatcher(None, a, b).ratio() (line 81); the ratios of the input
\* strings are tabulated once, which changes no value (@@ makes TLC store
\* the table instead of recomputing an entry at each use).
RatioTable ==
    [p \in (PairWords \X PairWords) \cup (LongWords \X LongWords) |-> Ratio(p[1], p[2])]
    @@ << >>

ratio(a, b) == IF <<a, b>> \in DOMAIN RatioTable THEN RatioTable[<<a, b>>] ELSE Ratio(a, b)

\* An optional value: None, or the value in a one element tuple.
None == << >>
Some(v) == <<v>>

LazyOps == {"fuzzymatch", "fuzzymatch_iter"}
EagerOps == {"fuzzymatch_best", "fuzzymatch_choices", "didyoumean"}

Idle ==
    /\ op = "none"
    /\ fmt = ChoicesDefaults
    /\ pc = "ready"
    /\ pos = 0
    /\ scored = << >>
    /\ out = << >>
    /\ result = None
    /\ error = "none"

InitMany ==
    /\ Idle
    /\ haystack \in Haystacks
    /\ needle \in Words
    /\ min_ratio \in MinRatios
    /\ s = << >>

InitPair ==
    /\ Idle
    /\ needle \in PairWords
    /\ \E b \in PairWords : haystack = <<b>>
    /\ min_ratio = <<3, 5>>
    /\ s = << >>

InitLong ==
    /\ Idle
    /\ needle \in LongWords
    /\ \E b \in LongWords : haystack = <<b>>
    /\ min_ratio = <<3, 5>>
    /\ s = << >>

Init == InitMany \/ InitPair \/ InitLong

(***************************************************************************)
(* Calls.  Calling a generator function only creates the generator; the    *)
(* body runs when the consumer asks for the next item.                     *)
(***************************************************************************)
Enter(o, f) ==
    /\ pc = "ready"
    /\ op' = o
    /\ fmt' = f
    /\ pc' = "start"
    /\ UNCHANGED <<haystack, needle, min_ratio, pos, scored, out, result, error, s>>

\* didyoumean passes list(haystack) and its keywords on to fuzzymatch_choices.
didyoumean == \E f \in Formats : Enter("didyoumean", f)

\* fuzzymatch_choices, line 57: list(fuzzymatch(...)) starts to drain the generator.
fuzzymatch_choices == \E f \in Formats : Enter("fuzzymatch_choices", f)

\* fuzzymatch_best, lines 91-95: sorted(fuzzymatch_iter(...)) starts to drain it.
fuzzymatch_best == Enter("fuzzymatch_best", fmt)

fuzzymatch == Enter("fuzzymatch", fmt)

fuzzymatch_iter == Enter("fuzzymatch_iter", fmt)

(***************************************************************************)
(* One resumption of the generator: the loop of fuzzymatch_iter runs from  *)
(* the candidate after pos to the next yield, or to the end of haystack.   *)
(***************************************************************************)
\* Qualifies with > in place of >=.
Qualifies_strict(key) == Gt(ratio(needle, key), min_ratio)

\* Lines 81-82: the candidate's ratio against the needle clears min_ratio.
Qualifies(key) == Geq(ratio(needle, key), min_ratio)

\* The position of the first qualifying candidate at or after p, 0 if none.
RECURSIVE NextYield(_)
NextYield(p) ==
    IF p > Len(haystack) THEN 0
    ELSE IF Qualifies(haystack[p]) THEN p
    ELSE NextYield(p + 1)

\* Scoring that scores the rest of haystack ahead of the consumer.
Scoring_ahead(from, to) == [i \in 1..(Len(haystack) - from) |-> from + i]

\* The candidates scored by a resumption that starts after from and stops at to.
Scoring(from, to) == [i \in 1..(to - from) |-> from + i]

\* What the consumer receives: fuzzymatch (line 69) strips the ratio.
Item(key) ==
    IF op \in {"fuzzymatch_iter", "fuzzymatch_best"}
    THEN FuzzyMatch(ratio(needle, key), key)
    ELSE key

Resume ==
    /\ pc \in {"start", "yield"}
    /\ LET p == NextYield(pos + 1)
       IN  IF p = 0
           THEN /\ pos' = Len(haystack)
                /\ scored' = scored \o Scoring(pos, Len(haystack))
                /\ out' = out
                /\ pc' = "end"
           ELSE /\ pos' = p
                /\ scored' = scored \o Scoring(pos, p)
                /\ out' = Append(out, Item(haystack[p]))
                /\ pc' = "yield"
    /\ UNCHANGED <<op, haystack, needle, min_ratio, fmt, result, error, s>>

\* The consumer of fuzzymatch / fuzzymatch_iter stops iterating.
Stop ==
    /\ op \in LazyOps
    /\ pc \in {"start", "yield"}
    /\ pc' = "closed"
    /\ UNCHANGED <<op, haystack, needle, min_ratio, fmt, pos, scored, out, result, error, s>>

(***************************************************************************)
(* Returns of the functions that drain the generator.                      *)
(***************************************************************************)
\* BestOf without the except clause.
BestOf_uncaught(ms) ==
    IF ms = << >>
    THEN [result |-> None, error |-> "IndexError"]
    ELSE [result |-> Some(SortedReverse(ms)[1].value), error |-> "none"]

\* fuzzymatch_best, lines 90-99: [0].value of the sorted list; the
\* IndexError of an empty list is caught and None returned.
BestOf(ms) ==
    IF ms = << >>
    THEN [result |-> None, error |-> "none"]
    ELSE [result |-> Some(SortedReverse(ms)[1].value), error |-> "none"]

ReturnBest ==
    /\ op = "fuzzymatch_best"
    /\ pc = "end"
    /\ result' = BestOf(out).result
    /\ error' = BestOf(out).error
    /\ pc' = "returned"
    /\ UNCHANGED <<op, haystack, needle, min_ratio, fmt, pos, scored, out, s>>

\* list that returns the items in reverse.
list_reversed(items) == [k \in 1..Len(items) |-> items[Len(items) + 1 - k]]

\* fuzzymatch_choices, line 57: list(...) keeps the items in the order received.
list(items) == items

\* ChoicesOf that takes fmt_many for a single candidate too.
ChoicesOf_many_for_one(alt, f) ==
    IF alt = << >> THEN f.fmt_none
    ELSE Format(IF Len(alt) >= 1 THEN f.fmt_many ELSE f.fmt_one,
                Join(<<COMMA, SPACE>>, alt))

\* fuzzymatch_choices, lines 58-62.
ChoicesOf(alt, f) ==
    IF alt = << >> THEN f.fmt_none
    ELSE Format(IF Len(alt) > 1 THEN f.fmt_many ELSE f.fmt_one,
                Join(<<COMMA, SPACE>>, alt))

ReturnChoices ==
    /\ op \in {"fuzzymatch_choices", "didyoumean"}
    /\ pc = "end"
    /\ result' = Some(ChoicesOf(list(out), fmt))
    /\ pc' = "returned"
    /\ UNCHANGED <<op, haystack, needle, min_ratio, fmt, pos, scored, out, error, s>>

Next ==
    \/ didyoumean
    \/ fuzzymatch_choices
    \/ fuzzymatch_best
    \/ fuzzymatch
    \/ fuzzymatch_iter
    \/ Resume
    \/ Stop
    \/ ReturnBest
    \/ ReturnChoices

Spec == Init /\ [][Next]_vars

(***************************************************************************)
(* title(s), lines 23-33.                                                  *)
(***************************************************************************)
\* The ASCII characters str.split() treats as whitespace.
Whitespace == {9, 10, 11, 12, 13, 28, 29, 30, 31, 32}

Upper(c) == IF c >= 97 /\ c <= 122 THEN c - 32 ELSE c
Lower(c) == IF c >= 65 /\ c <= 90 THEN c + 32 ELSE c

\* str.replace(old, new) for a one character old.
RECURSIVE Replace(_, _, _)
Replace(w, old, new) ==
    IF w = << >> THEN << >>
    ELSE (IF Head(w) = old THEN new ELSE <<Head(w)>>) \o Replace(Tail(w), old, new)

\* str.split(): the maximal runs of non whitespace characters.
RECURSIVE SplitFrom(_, _, _)
SplitFrom(w, i, word) ==
    LET done == IF word = << >> THEN << >> ELSE <<word>>
    IN  IF i > Len(w) THEN done
        ELSE IF w[i] \in Whitespace THEN done \o SplitFrom(w, i + 1, << >>)
        ELSE SplitFrom(w, i + 1, Append(word, w[i]))

Split(w) == SplitFrom(w, 1, << >>)

\* str.capitalize(): first character upper case, the rest lower case.
Capitalize(w) == [i \in 1..Len(w) |-> IF i = 1 THEN Upper(w[i]) ELSE Lower(w[i])]

title(str) ==
    LET parts == Split(Replace(Replace(str, HYPHEN, <<SPACE>>), UNDERSCORE, << >>))
    IN  Join(<<SPACE>>, [k \in 1..Len(parts) |-> Capitalize(parts[k])])

\* "foo-bar_baz", "foo bar", "foo-bar"
FooBarBaz == <<102, 111, 111, 45, 98, 97, 114, 95, 98, 97, 122>>
FooBar == <<102, 111, 111, 32, 98, 97, 114>>
FooHyphenBar == <<102, 111, 111, 45, 98, 97, 114>>

TitleInputs == StrsUpTo(TitleChars, MaxTitleLen) \cup {FooBarBaz, FooBar, FooHyphenBar}

InitTitle ==
    /\ Idle
    /\ haystack = << >>
    /\ needle = << >>
    /\ min_ratio = <<3, 5>>
    /\ s \in TitleInputs

Title ==
    /\ pc = "ready"
    /\ op' = "title"
    /\ result' = Some(title(s))
    /\ pc' = "returned"
    /\ UNCHANGED <<haystack, needle, min_ratio, fmt, pos, scored, out, error, s>>

NextTitle == Title

SpecTitle == InitTitle /\ [][NextTitle]_vars

(***************************************************************************)
(* The claims.  Their formulas are stated on the inputs and on what the    *)
(* calls left in the state.                                                *)
(***************************************************************************)
Zero == <<0, 1>>
One == <<1, 1>>

\* The k-th smallest element of a set of integers.
Nth(S, k) == CHOOSE x \in S : Cardinality({y \in S : y < x}) = k - 1

\* The positions of haystack whose candidate clears min_ratio.
Passing == {i \in 1..Len(haystack) : Geq(ratio(needle, haystack[i]), min_ratio)}

\* The candidates that clear min_ratio, in haystack order.
PassingValues == [k \in 1..Cardinality(Passing) |-> haystack[Nth(Passing, k)]]

\* The candidates received so far, without their ratios.
Values ==
    IF op \in {"fuzzymatch_iter", "fuzzymatch_best"}
    THEN [k \in 1..Len(out) |-> out[k].value]
    ELSE out

Drained == pc \in {"end", "returned"}
Returned(o) == op = o /\ pc = "returned"
ChoicesReturned == Returned("fuzzymatch_choices") \/ Returned("didyoumean")

\* (ratio, value) of the candidate at position i is >= that at position j.
PairGeq(i, j) ==
    LET ri == ratio(needle, haystack[i])
        rj == ratio(needle, haystack[j])
    IN  Gt(ri, rj) \/ (Eq(ri, rj) /\ ~StrLt(haystack[i], haystack[j]))

\* C1: fuzzymatch_best returns a candidate that clears min_ratio, has the
\* greatest ratio of the haystack and is the lexically greatest of those tied
\* at that ratio; it returns None exactly when no candidate clears min_ratio.
C1_BestIsGreatest ==
    Returned("fuzzymatch_best") =>
        /\ (result = None) <=> (Passing = {})
        /\ result # None =>
             \E i \in Passing :
                 /\ result = Some(haystack[i])
                 /\ \A j \in 1..Len(haystack) :
                        LET ri == ratio(needle, haystack[i])
                            rj == ratio(needle, haystack[j])
                        IN  /\ ~Gt(rj, ri)
                            /\ Eq(rj, ri) => ~StrLt(haystack[i], haystack[j])

\* A tie at the greatest ratio between two different candidates was decided.
C1_Witness ==
    /\ Returned("fuzzymatch_best")
    /\ \E i, j \in Passing :
           /\ haystack[i] # haystack[j]
           /\ Eq(ratio(needle, haystack[i]), ratio(needle, haystack[j]))
           /\ \A k \in Passing : PairGeq(i, k) \/ PairGeq(j, k)
           /\ result \in {Some(haystack[i]), Some(haystack[j])}

\* C2: what fuzzymatch_iter yields is the subsequence of haystack (order and
\* duplicates kept) of the candidates whose ratio is >= min_ratio, each with
\* that ratio; fuzzymatch yields the same candidates without the ratios.
C2_YieldsFilteredSubsequence ==
    op \in {"fuzzymatch", "fuzzymatch_iter"} =>
        /\ Len(out) <= Cardinality(Passing)
        /\ pc = "end" => Len(out) = Cardinality(Passing)
        /\ \A k \in 1..Len(out) :
               LET key == haystack[Nth(Passing, k)]
               IN  IF op = "fuzzymatch_iter"
                   THEN out[k].value = key /\ Eq(out[k].ratio, ratio(needle, key))
                   ELSE out[k] = key

\* The generator ran to its end, yielded something and filtered something.
C2_Witness ==
    /\ op = "fuzzymatch_iter"
    /\ pc = "end"
    /\ Len(out) > 0
    /\ Len(out) < Len(haystack)

\* C3 as stated: the candidates substituted for {alt} are sorted by
\* descending ratio, ties by descending lexical order, and the first one is
\* the one fuzzymatch_best returns.
C3_ChoicesSortedLikeBest ==
    ChoicesReturned =>
        /\ \A k \in 1..(Len(out) - 1) :
               LET rk == ratio(needle, out[k])
                   rn == ratio(needle, out[k + 1])
               IN  Gt(rk, rn) \/ (Eq(rk, rn) /\ ~StrLt(out[k], out[k + 1]))
        /\ out # << >> => out[1] = SortedReverse(
               [k \in 1..Len(out) |-> FuzzyMatch(ratio(needle, out[k]), out[k])])[1].value

\* C3, amended: the candidates substituted for {alt} are all the candidates
\* that clear min_ratio, in the order in which they appear in haystack.
C3_ChoicesInHaystackOrder ==
    ChoicesReturned =>
        result = Some(IF Passing = {} THEN fmt.fmt_none
                      ELSE Format(IF Cardinality(Passing) > 1 THEN fmt.fmt_many ELSE fmt.fmt_one,
                                  Join(<<COMMA, SPACE>>, PassingValues)))

\* Two candidates are listed and the first is not the one with the greater
\* (ratio, value).
C3_Witness ==
    /\ ChoicesReturned
    /\ Len(out) > 1
    /\ \E i, j \in Passing : i < j /\ ~PairGeq(i, j)

\* C4: fuzzymatch_choices picks the template by the number of candidates:
\* fmt_none unchanged for none, fmt_one with the candidate for one, fmt_many
\* with the candidates joined by ", " for more; didyoumean returns the same.
C4_TemplateByCount ==
    ChoicesReturned =>
        /\ Len(out) = 0 => result = Some(fmt.fmt_none)
        /\ Len(out) = 1 => result = Some(Format(fmt.fmt_one, out[1]))
        /\ Len(out) > 1 => result = Some(Format(fmt.fmt_many, Join(<<COMMA, SPACE>>, out)))

\* didyoumean returned fmt_many filled with several candidates.
C4_Witness ==
    /\ Returned("didyoumean")
    /\ Len(out) > 1
    /\ fmt = DidyoumeanDefaults
    /\ Len(result[1]) > Len(fmt.fmt_many)

\* C5: with an empty haystack or min_ratio > 1.0 nothing is yielded, nothing
\* is raised, fuzzymatch_best returns None and fuzzymatch_choices /
\* didyoumean return fmt_none.
C5_EmptyOutcome ==
    (haystack = << >> \/ Gt(min_ratio, One)) =>
        /\ out = << >>
        /\ error = "none"
        /\ pc # "yield"
        /\ Returned("fuzzymatch_best") => result = None
        /\ ChoicesReturned => result = Some(fmt.fmt_none)

\* fuzzymatch_best returned although an exact match was in the haystack.
C5_Witness ==
    /\ Returned("fuzzymatch_best")
    /\ Gt(min_ratio, One)
    /\ \E i \in 1..Len(haystack) : haystack[i] = needle

EmptyOutcome ==
    /\ out = << >>
    /\ error = "none"
    /\ Returned("fuzzymatch_best") => result = None
    /\ ChoicesReturned => result = Some(fmt.fmt_none)

ScoredKeys == {haystack[scored[k]] : k \in 1..Len(scored)}

\* C7 as stated: the ratio of a scored candidate is the same with the
\* needle and the candidate exchanged.
C7_RatioSymmetric ==
    \A key \in ScoredKeys : Eq(ratio(needle, key), ratio(key, needle))

\* C7, amended: T is the same in both directions but M need not be; the two
\* ratios are equal when one of the strings is empty, and for strings
\* shorter than 200 characters one is 0.0 exactly when the other is.
C7_RatioSymmetricWhenDegenerate ==
    \A key \in ScoredKeys :
        LET there == ratio(needle, key)
            back  == ratio(key, needle)
        IN  /\ there[2] = back[2]
            /\ (needle = << >> \/ key = << >>) => Eq(there, back)
            /\ (Len(needle) < 200 /\ Len(key) < 200) => (Eq(there, Zero) <=> Eq(back, Zero))

\* A candidate was scored whose ratio depends on which string is the needle,
\* and it clears min_ratio in one direction only.
C7_Witness ==
    \E key \in ScoredKeys :
        /\ Geq(ratio(needle, key), min_ratio)
        /\ ~Geq(ratio(key, needle), min_ratio)

\* C8: the ratio is 2*M/T with T = len(a)+len(b), within [0, 1], 1.0 for
\* equal strings (the empty one included), 0.0 for a non empty needle and an
\* empty candidate; a candidate equal to the needle is yielded by
\* fuzzymatch_iter for every min_ratio <= 1.0.
C8_RatioRangeAndBoundaries ==
    /\ \A key \in ScoredKeys :
           LET r == ratio(needle, key)
               T == Len(needle) + Len(key)
           IN  /\ Geq(r, Zero) /\ Geq(One, r)
               /\ T > 0 => (r[2] = T /\ r[1] % 2 = 0 /\ r[1] <= 2 * Min2(Len(needle), Len(key)))
               /\ key = needle => Eq(r, One)
               /\ (needle # << >> /\ key = << >>) => Eq(r, Zero)
    /\ (op = "fuzzymatch_iter" /\ Geq(One, min_ratio)) =>
           \A i \in 1..Len(scored) :
               haystack[scored[i]] = needle =>
                   \E k \in 1..Len(out) : out[k].value = needle /\ Eq(out[k].ratio, One)

\* A string long enough for autojunk was matched with itself and yielded.
C8_Witness ==
    /\ op = "fuzzymatch_iter"
    /\ Len(needle) >= 200
    /\ Len(out) = 1
    /\ out[1].value = needle

\* C9: fuzzymatch and fuzzymatch_iter score the candidates in haystack order
\* and only up to the candidate last delivered; once stopped nothing more is
\* scored.  fuzzymatch_best and fuzzymatch_choices score all of haystack
\* before they return.
C9_LazyScoring ==
    LET delivered == IF out = << >> THEN 0 ELSE Nth(Passing, Len(out))
        n == IF pc = "ready" \/ pc = "start" THEN 0
             ELSE IF pc = "end" \/ pc = "returned" THEN Len(haystack)
             ELSE delivered
    IN  /\ op \in LazyOps => (Len(out) <= Cardinality(Passing) /\ scored = [i \in 1..n |-> i])
        /\ (op \in EagerOps /\ pc = "returned") => scored = [i \in 1..Len(haystack) |-> i]

\* The consumer stopped after its first result with candidates left unscored.
C9_Witness ==
    /\ op = "fuzzymatch"
    /\ pc = "closed"
    /\ Len(out) = 1
    /\ Len(scored) < Len(haystack)

\* What C10 says title returns: the maximal runs of characters other than
\* space, hyphen and underscore, capitalized, joined by single spaces.
Separators == {SPACE, HYPHEN, UNDERSCORE}
WordStarts(w) == {i \in 1..Len(w) : w[i] \notin Separators /\ (i = 1 \/ w[i - 1] \in Separators)}
WordEnds(w) == {i \in 1..Len(w) : w[i] \notin Separators /\ (i = Len(w) \/ w[i + 1] \in Separators)}
TitleWords(w) ==
    [k \in 1..Cardinality(WordStarts(w)) |->
        Capitalize(SubSeq(w, Nth(WordStarts(w), k), Nth(WordEnds(w), k)))]

\* C10: title splits at every space, hyphen and underscore, capitalizes each
\* word and joins the words with single spaces ("foo-bar_baz" -> "Foo Bar Baz").
C10_TitleSplitsAtUnderscore ==
    Returned("title") => result = Some(Join(<<SPACE>>, TitleWords(s)))

====
